---- MODULE Spec2Model ----
(***************************************************************************)
(* Model of copilot_more: the TokenManager credential pool (token.py) and  *)
(* the forwarding pipeline make_api_request / stream_response (server.py). *)
(* The server is an asyncio program: a coroutine runs without preemption   *)
(* until it awaits network I/O.  `running` is the coroutine that owns the  *)
(* event loop; other coroutines and the clock move only while it is Idle.  *)
(* List indices are 0-based as in the source; sequences are 1-based, so    *)
(* the source's tokens[i] is tokens[i + 1] here.                           *)
(***************************************************************************)
EXTENDS Integers, Sequences, FiniteSets, TLC

\* ------------------------------------------------------------- bounds ---
MaxTokens == 3
NumRequests == 2
MaxTicks == 1
StartTime == 1000
MaxExchangeFaults == 2
MaxCycles == 1
MaxUpstreamErrors == 3
MaxConcurrentTokens == 2
MaxDisturbances == 1
MaxEnvLen == 3
MaxLegacyLen == 1
MaxStatusReads == 2
MaxStatusDisturbances == 2

\* -------------------------------------------------- program constants ---
MAX_RETRIES == 3
RATE_LIMIT_WINDOW == 60
EXPIRY_MARGIN == 300
QUEUE_MAXSIZE == 1

\* -------------------------------------------------------- environment ---
AllTokens == <<"token1", "token2", "token3", "token4", "token5">>
TokenLists == { SubSeq(AllTokens, 1, k) : k \in 1..MaxTokens }
Requests == 1..NumRequests
Idle == 0
Free == 0
None == [token |-> "None"]
NoResponse == [status |-> 0, text |-> ""]
NoException == ""
NoReport == [total_tokens |-> 0]
NoStatus == [total_tokens |-> 0]
TokenLifetimes == { EXPIRY_MARGIN, 5 * EXPIRY_MARGIN }
TickSteps == { RATE_LIMIT_WINDOW \div 2, RATE_LIMIT_WINDOW }

VARIABLES
    environ, startup_error,
    tokens, current_index, token_statuses, lock, cache_queue, cached_token,
    now, running, budget,
    pc, request_body, retries, token, new_token, stack, current_token,
    response, exc, frames, http_status,
    cycle_report, status_report,
    hist, nexch, cycled, exchanges, reported, nstatus

pool == <<tokens, current_index, token_statuses, cache_queue, cached_token>>
locals == <<request_body, retries, token, new_token, stack, current_token,
            response, exc, frames, http_status>>
\* history of a request: the statuses upstream answered, the number of
\* exchange calls, and the exchange calls of the refresh_token call under way
\* (credential used and answer)
ghosts == <<hist, nexch, exchanges>>
\* what the last GET /tokens/status answered, the pool it was read from, and
\* the number of such calls
diagnostics == <<status_report, reported, nstatus>>
\* what the last manual rotation left: the report POST /tokens/cycle answered
\* with, and whether get_cached_copilot_token has yet to call refresh_token
\* since that rotation
rotation == <<cycle_report, cycled>>
\* the process environment and the exception TokenManager() raised, if any
startup == <<environ, startup_error>>
vars == <<environ, startup_error, tokens, current_index, token_statuses, lock, cache_queue,
          cached_token, now, running, budget, pc, request_body, retries,
          token, new_token, stack, current_token, response, exc, frames,
          http_status, cycle_report, status_report, hist, nexch, cycled,
          exchanges, reported, nstatus>>

\* ------------------------------------------------------- TokenManager ---
InitialStatus ==
    [last_error |-> "None", rate_limited_until |-> 0, consecutive_failures |-> 0]

\* tokens.index(t): position (0-based) of the first occurrence of t
RECURSIVE IndexFrom(_, _, _)
IndexFrom(seq, t, i) ==
    IF seq[i + 1] = t THEN i ELSE IndexFrom(seq, t, i + 1)

TokenIndex(seq, t) == IndexFrom(seq, t, 0)

\* min(token_statuses.items(), key=rate_limited_until): the dict iterates in
\* insertion order (order of first occurrence in tokens) and min keeps the
\* first minimal entry.
SoonestAvailable_Latest(seq, statuses) ==
    LET most(t) == \A u \in DOMAIN statuses :
                      statuses[t].rate_limited_until >= statuses[u].rate_limited_until
        firsts == { TokenIndex(seq, t) : t \in { u \in DOMAIN statuses : most(u) } }
    IN  seq[(CHOOSE i \in firsts : \A j \in firsts : i <= j) + 1]

SoonestAvailable(seq, statuses) ==
    LET least(t) == \A u \in DOMAIN statuses :
                       statuses[t].rate_limited_until <= statuses[u].rate_limited_until
        firsts == { TokenIndex(seq, t) : t \in { u \in DOMAIN statuses : least(u) } }
    IN  seq[(CHOOSE i \in firsts : \A j \in firsts : i <= j) + 1]

\* get_next_available_token, the body run under the lock.  Yields the
\* returned (token, index) and the new current_index and token_statuses.
RECURSIVE ScanTokens_KeepsFailures(_, _, _, _, _)
ScanTokens_KeepsFailures(seq, index, statuses, attempts, current_time) ==
    IF attempts < Len(seq)
    THEN LET t == seq[index + 1]
             status == statuses[t]
         IN  IF status.rate_limited_until <= current_time
             THEN [token |-> t, index |-> index, current_index |-> index,
                   token_statuses |->
                       IF status.rate_limited_until > 0
                       THEN [statuses EXCEPT ![t].rate_limited_until = 0]
                       ELSE statuses]
             ELSE ScanTokens_KeepsFailures(seq, (index + 1) % Len(seq), statuses,
                                           attempts + 1, current_time)
    ELSE LET soonest == SoonestAvailable(seq, statuses)
         IN  [token |-> soonest, index |-> TokenIndex(seq, soonest),
              current_index |-> index, token_statuses |-> statuses]

RECURSIVE ScanTokens_KeepsWindow(_, _, _, _, _)
ScanTokens_KeepsWindow(seq, index, statuses, attempts, current_time) ==
    IF attempts < Len(seq)
    THEN LET t == seq[index + 1]
             status == statuses[t]
         IN  IF status.rate_limited_until <= current_time
             THEN [token |-> t, index |-> index, current_index |-> index,
                   token_statuses |->
                       IF status.rate_limited_until > 0
                       THEN [statuses EXCEPT ![t].consecutive_failures = 0]
                       ELSE statuses]
             ELSE ScanTokens_KeepsWindow(seq, (index + 1) % Len(seq), statuses,
                                         attempts + 1, current_time)
    ELSE LET soonest == SoonestAvailable(seq, statuses)
         IN  [token |-> soonest, index |-> TokenIndex(seq, soonest),
              current_index |-> index, token_statuses |-> statuses]

RECURSIVE ScanTokens_MovesToSoonest(_, _, _, _, _)
ScanTokens_MovesToSoonest(seq, index, statuses, attempts, current_time) ==
    IF attempts < Len(seq)
    THEN LET t == seq[index + 1]
             status == statuses[t]
         IN  IF status.rate_limited_until <= current_time
             THEN [token |-> t, index |-> index, current_index |-> index,
                   token_statuses |->
                       IF status.rate_limited_until > 0
                       THEN [statuses EXCEPT ![t].rate_limited_until = 0,
                                             ![t].consecutive_failures = 0]
                       ELSE statuses]
             ELSE ScanTokens_MovesToSoonest(seq, (index + 1) % Len(seq), statuses,
                                            attempts + 1, current_time)
    ELSE LET soonest == SoonestAvailable(seq, statuses)
         IN  [token |-> soonest, index |-> TokenIndex(seq, soonest),
              current_index |-> TokenIndex(seq, soonest), token_statuses |-> statuses]

RECURSIVE ScanTokens(_, _, _, _, _)
ScanTokens(seq, index, statuses, attempts, current_time) ==
    IF attempts < Len(seq)
    THEN LET t == seq[index + 1]
             status == statuses[t]
         IN  IF status.rate_limited_until <= current_time
             THEN [token |-> t, index |-> index, current_index |-> index,
                   token_statuses |->
                       IF status.rate_limited_until > 0
                       THEN [statuses EXCEPT ![t].rate_limited_until = 0,
                                             ![t].consecutive_failures = 0]
                       ELSE statuses]
             ELSE ScanTokens(seq, (index + 1) % Len(seq), statuses,
                             attempts + 1, current_time)
    ELSE LET soonest == SoonestAvailable(seq, statuses)
         IN  [token |-> soonest, index |-> TokenIndex(seq, soonest),
              current_index |-> index, token_statuses |-> statuses]

GetNextAvailableToken_FromFirst(seq, index, statuses, current_time) ==
    ScanTokens(seq, 0, statuses, 0, current_time)

GetNextAvailableToken(seq, index, statuses, current_time) ==
    ScanTokens(seq, index, statuses, 0, current_time)

\* mark_token_rate_limited, the body run under the lock
MarkTokenRateLimited_NoCount(statuses, t, current_time) ==
    [statuses EXCEPT ![t].consecutive_failures = 1,
                     ![t].rate_limited_until = current_time + RATE_LIMIT_WINDOW,
                     ![t].last_error = "Rate limit exceeded"]

MarkTokenRateLimited_Backoff(statuses, t, current_time) ==
    [statuses EXCEPT ![t].consecutive_failures = @ + 1,
                     ![t].rate_limited_until =
                         current_time
                         + RATE_LIMIT_WINDOW * (statuses[t].consecutive_failures + 1),
                     ![t].last_error = "Rate limit exceeded"]

MarkTokenRateLimited(statuses, t, current_time) ==
    [statuses EXCEPT ![t].consecutive_failures = @ + 1,
                     ![t].rate_limited_until = current_time + RATE_LIMIT_WINDOW,
                     ![t].last_error = "Rate limit exceeded"]

\* the cache test of get_cached_copilot_token
CacheIsFresh_NoMargin(cached, current_time) ==
    /\ cached # None
    /\ cached.expires_at > current_time

CacheIsFresh(cached, current_time) ==
    /\ cached # None
    /\ cached.expires_at > current_time + EXPIRY_MARGIN

\* any(status["rate_limited_until"] <= time.time() ...) in refresh_token
AnyTokenAvailable(statuses, current_time) ==
    \E t \in DOMAIN statuses : statuses[t].rate_limited_until <= current_time

\* get_token_status, the body run under the lock
GetTokenStatus_Inclusive(seq, index, statuses, current_time) ==
    [current_index |-> index,
     total_tokens |-> Len(seq),
     tokens |-> [i \in 1..Len(seq) |->
                   [index |-> i - 1,
                    is_current |-> (i - 1 = index),
                    is_rate_limited |-> statuses[seq[i]].rate_limited_until >= current_time,
                    rate_limited_until |-> statuses[seq[i]].rate_limited_until,
                    consecutive_failures |-> statuses[seq[i]].consecutive_failures]]]

GetTokenStatus(seq, index, statuses, current_time) ==
    [current_index |-> index,
     total_tokens |-> Len(seq),
     tokens |-> [i \in 1..Len(seq) |->
                   [index |-> i - 1,
                    is_current |-> (i - 1 = index),
                    is_rate_limited |-> statuses[seq[i]].rate_limited_until > current_time,
                    rate_limited_until |-> statuses[seq[i]].rate_limited_until,
                    consecutive_failures |-> statuses[seq[i]].consecutive_failures]]]

\* ------------------------------------------------------- load_tokens ---
\* A string of the environment is a sequence of lexemes: credential words,
\* the comma and a run of whitespace.  A variable is unset or holds a string.
Lexemes == { "token1", "token2", ",", " " }
Strings(n) == UNION { [1..k -> Lexemes] : k \in 0..n }
Unset == [set |-> FALSE]
Str(chars) == [set |-> TRUE, value |-> chars]

\* the str a sequence of lexemes spells
RECURSIVE Text(_)
Text(chars) == IF chars = <<>> THEN "" ELSE Head(chars) \o Text(Tail(chars))

\* chars.split(sep)
RECURSIVE Split(_, _)
Split(chars, sep) ==
    IF \E i \in DOMAIN chars : chars[i] = sep
    THEN LET i == CHOOSE i \in DOMAIN chars :
                     chars[i] = sep /\ \A j \in 1..(i - 1) : chars[j] # sep
         IN  <<SubSeq(chars, 1, i - 1)>> \o Split(SubSeq(chars, i + 1, Len(chars)), sep)
    ELSE <<chars>>

\* chars.strip()
RECURSIVE Strip(_)
Strip(chars) ==
    IF chars # <<>> /\ Head(chars) = " " THEN Strip(Tail(chars))
    ELSE IF chars # <<>> /\ chars[Len(chars)] = " "
         THEN Strip(SubSeq(chars, 1, Len(chars) - 1))
    ELSE chars

\* [token.strip() for token in fields if token.strip()]
RECURSIVE StripNonBlank(_)
StripNonBlank(fields) ==
    IF fields = <<>> THEN <<>>
    ELSE IF Strip(Head(fields)) # <<>>
         THEN <<Text(Strip(Head(fields)))>> \o StripNonBlank(Tail(fields))
         ELSE StripNonBlank(Tail(fields))

\* os.getenv(name) is falsy: the variable is unset or empty
Falsy(value) == value = Unset \/ value.value = <<>>

NO_TOKENS_FOUND == "No refresh tokens found. Set REFRESH_TOKENS environment variable with comma-separated tokens."
NO_VALID_TOKENS == "No valid refresh tokens found in REFRESH_TOKENS environment variable."

\* load_tokens lines 23-34: the credential list, or the ValueError raised
LoadTokens_Unstripped(env) ==
    IF Falsy(env.REFRESH_TOKENS)
    THEN IF ~Falsy(env.REFRESH_TOKEN)
         THEN [tokens |-> <<Text(env.REFRESH_TOKEN.value)>>, error |-> ""]
         ELSE [tokens |-> <<>>, error |-> NO_TOKENS_FOUND]
    ELSE LET fields == Split(env.REFRESH_TOKENS.value, ",")
             listed == [i \in DOMAIN fields |-> Text(fields[i])]
         IN  IF listed # <<>> THEN [tokens |-> listed, error |-> ""]
             ELSE [tokens |-> <<>>, error |-> NO_VALID_TOKENS]

LoadTokens(env) ==
    IF Falsy(env.REFRESH_TOKENS)
    THEN IF ~Falsy(env.REFRESH_TOKEN)
         THEN [tokens |-> <<Text(env.REFRESH_TOKEN.value)>>, error |-> ""]
         ELSE [tokens |-> <<>>, error |-> NO_TOKENS_FOUND]
    ELSE LET listed == StripNonBlank(Split(env.REFRESH_TOKENS.value, ","))
         IN  IF listed # <<>> THEN [tokens |-> listed, error |-> ""]
             ELSE [tokens |-> <<>>, error |-> NO_VALID_TOKENS]

\* "token1,token2,...": the REFRESH_TOKENS that lists the credentials of seq
RECURSIVE CommaSeparated(_)
CommaSeparated(seq) ==
    IF Len(seq) <= 1 THEN seq
    ELSE <<Head(seq), ",">> \o CommaSeparated(Tail(seq))

Environments ==
    [REFRESH_TOKENS : {Unset} \cup { Str(v) : v \in Strings(MaxEnvLen) },
     REFRESH_TOKEN : {Unset} \cup { Str(v) : v \in Strings(MaxLegacyLen) }]

\* request bodies: an o1 model with streaming, another model with streaming,
\* an o1 model whose body carries no "stream" key
RequestBodies ==
    { [model |-> "o1-preview", stream |-> TRUE],
      [model |-> "gpt-4o", stream |-> TRUE],
      [model |-> "o1-preview"] }

DefaultBody == [model |-> "o1-preview", stream |-> TRUE]

\* TokenManager.__init__: the fields of a new manager, load_tokens run
\* against the environment
InitPool ==
    /\ tokens = LoadTokens(environ).tokens
    /\ startup_error = LoadTokens(environ).error
    /\ current_index = 0
    /\ token_statuses = [t \in { tokens[i] : i \in DOMAIN tokens } |-> InitialStatus]
    /\ lock = Free
    /\ cache_queue = <<>>
    /\ cached_token = None

InitRequests ==
    /\ now = StartTime
    /\ running = Idle
    /\ retries = [r \in Requests |-> 0]
    /\ token = [r \in Requests |-> None]
    /\ new_token = [r \in Requests |-> None]
    /\ stack = [r \in Requests |-> <<>>]
    /\ current_token = [r \in Requests |-> ""]
    /\ response = [r \in Requests |-> NoResponse]
    /\ exc = [r \in Requests |-> NoException]
    /\ frames = [r \in Requests |-> <<>>]
    /\ http_status = [r \in Requests |-> 0]
    /\ cycle_report = NoReport
    /\ hist = [r \in Requests |-> <<>>]
    /\ nexch = [r \in Requests |-> 0]
    /\ cycled = FALSE
    /\ exchanges = [r \in Requests |-> <<>>]
    /\ status_report = NoStatus
    /\ reported = <<>>
    /\ nstatus = 0

\* one request at a time, every disturbance of the environment allowed
Init ==
    /\ environ \in { [REFRESH_TOKENS |-> Str(CommaSeparated(l)), REFRESH_TOKEN |-> Unset] :
                      l \in TokenLists }
    /\ InitPool
    /\ InitRequests
    /\ budget = [ticks |-> MaxTicks, cycles |-> MaxCycles, faults |-> MaxExchangeFaults,
                 errors |-> MaxUpstreamErrors]
    /\ pc = [r \in Requests |-> IF r = 1 THEN "init" ELSE "absent"]
    /\ \E body \in RequestBodies :
          request_body = [r \in Requests |-> IF r = 1 THEN body ELSE DefaultBody]

\* one request, every upstream answer allowed, a bounded number of other
\* disturbances (clock, manual rotation, exchange failure)
InitSparse ==
    /\ environ \in { [REFRESH_TOKENS |-> Str(CommaSeparated(l)), REFRESH_TOKEN |-> Unset] :
                      l \in TokenLists }
    /\ InitPool
    /\ InitRequests
    /\ budget \in { b \in [ticks : 0..MaxTicks, cycles : 0..MaxCycles,
                            faults : 0..MaxExchangeFaults,
                            errors : {MaxUpstreamErrors}] :
                      b.ticks + b.cycles + b.faults = MaxDisturbances }
    /\ pc = [r \in Requests |-> IF r = 1 THEN "init" ELSE "absent"]
    /\ \E body \in RequestBodies :
          request_body = [r \in Requests |-> IF r = 1 THEN body ELSE DefaultBody]

\* all requests concurrent, a bounded number of disturbances
InitConcurrent ==
    /\ environ \in { [REFRESH_TOKENS |-> Str(CommaSeparated(l)), REFRESH_TOKEN |-> Unset] :
                      l \in { k \in TokenLists : Len(k) <= MaxConcurrentTokens } }
    /\ InitPool
    /\ InitRequests
    /\ budget \in { b \in [ticks : 0..MaxTicks, cycles : 0..MaxCycles,
                            faults : 0..MaxExchangeFaults,
                            errors : 0..MaxUpstreamErrors] :
                      b.ticks + b.cycles + b.faults + b.errors = MaxDisturbances }
    /\ pc = [r \in Requests |-> "init"]
    /\ request_body = [r \in Requests |-> DefaultBody]

\* one request, a bounded number of disturbances, GET /tokens/status served
InitStatus ==
    /\ environ \in { [REFRESH_TOKENS |-> Str(CommaSeparated(l)), REFRESH_TOKEN |-> Unset] :
                      l \in TokenLists }
    /\ InitPool
    /\ InitRequests
    /\ budget \in { b \in [ticks : 0..MaxTicks, cycles : 0..MaxCycles,
                            faults : 0..MaxExchangeFaults,
                            errors : 0..MaxUpstreamErrors] :
                      b.ticks + b.cycles + b.faults + b.errors = MaxStatusDisturbances }
    /\ pc = [r \in Requests |-> IF r = 1 THEN "init" ELSE "absent"]
    /\ request_body = [r \in Requests |-> DefaultBody]

\* any environment; when the manager is built, one request and a bounded
\* number of disturbances; when load_tokens raises, the process never serves
InitStartup ==
    /\ environ \in Environments
    /\ InitPool
    /\ InitRequests
    /\ request_body = [r \in Requests |-> DefaultBody]
    /\ IF startup_error = NoException
       THEN /\ budget \in { b \in [ticks : 0..MaxTicks, cycles : 0..MaxCycles,
                                     faults : 0..MaxExchangeFaults,
                                     errors : 0..MaxUpstreamErrors] :
                               b.ticks + b.cycles + b.faults + b.errors = MaxDisturbances }
            /\ pc = [r \in Requests |-> IF r = 1 THEN "init" ELSE "absent"]
       ELSE /\ budget = [ticks |-> 0, cycles |-> 0, faults |-> 0, errors |-> 0]
            /\ pc = [r \in Requests |-> "absent"]


\* ------------------------------------------------- upstream collaborators ---
\* Bodies the chat-completions endpoint may answer with a 200.
TEXT_TWO_CHOICES == "{'id':'c1','created':7,'model':'o1-preview','choices':[{'index':0,'message':{'content':'a'},'finish_reason':'stop'},{'index':1,'message':{'content':'b'}}]}"
TEXT_ONE_CHOICE == "{'choices':[{'index':0,'message':{'content':'a'}}]}"
TEXT_NO_INDEX == "{'choices':[{'message':{'content':'a'}}]}"
TEXT_SSE_CHUNK == "data: {'choices':[{'delta':{'content':'a'}}]}"
OkTexts == { TEXT_TWO_CHOICES, TEXT_ONE_CHOICE, TEXT_NO_INDEX, TEXT_SSE_CHUNK }

UpstreamResponses ==
    { [status |-> 200, text |-> t] : t \in OkTexts }
    \cup { [status |-> 429, text |-> "rate limit exceeded"],
           [status |-> 500, text |-> "internal error"] }

\* str(e) of the exceptions the pipeline can meet
TRANSPORT_ERROR == "Cannot connect to host"
JSON_ERROR == "Expecting value: line 1 column 1 (char 0)"
KEY_ERROR_INDEX == "'index'"
POOL_EXHAUSTED == "429: All tokens are rate limited. Please try again later."
EXCHANGE_ERROR == "Failed to refresh token: 500 server error"

\* ------------------------------------------------------------ helpers ---
Last(seq) == seq[Len(seq)]

Top(r) == stack[r][Len(stack[r])]

SetSite(stk, site) == [stk EXCEPT ![Len(stk)].site = site]

Acquire(r) == lock = Free /\ lock' = r
Release(r) == lock = r /\ lock' = Free

Goto(r, label) == pc' = [pc EXCEPT ![r] = label]

\* ------------------------------------------------- stream_response: entry ---
\* proxy_chat_completions builds the StreamingResponse (status 200) and the
\* generator starts: lines 203-223 up to the call of make_api_request.
StartRequest(r) ==
    /\ running = Idle
    /\ pc[r] = "init"
    /\ http_status' = [http_status EXCEPT ![r] = 200]
    /\ retries' = [retries EXCEPT ![r] = 0]
    /\ running' = r
    /\ Goto(r, "loop")
    /\ UNCHANGED <<startup, diagnostics, rotation, pool, lock, now, budget, request_body, token, new_token, stack,
                   current_token, response, exc, frames, ghosts>>

\* make_api_request line 130: the while test; line 154 when it fails
LoopTest(r) ==
    /\ running = r
    /\ pc[r] = "loop"
    /\ IF retries[r] < MAX_RETRIES
       THEN Goto(r, "get_cached") /\ exc' = exc
       ELSE Goto(r, "stream_except") /\ exc' = [exc EXCEPT ![r] = POOL_EXHAUSTED]
    /\ response' = [response EXCEPT ![r] = NoResponse]
    /\ UNCHANGED <<startup, diagnostics, rotation, pool, lock, now, running, budget, request_body, retries, token,
                   new_token, stack, current_token, frames, http_status, ghosts>>

\* ------------------------------------------- get_cached_copilot_token ---
\* lines 148-160: the cache test under the lock
GetCachedLock(r) ==
    /\ running = r
    /\ pc[r] = "get_cached"
    /\ Acquire(r)
    /\ IF CacheIsFresh(cached_token, now)
       THEN Goto(r, "cache_hit")
       ELSE Goto(r, "cache_miss")
    /\ UNCHANGED <<startup, diagnostics, rotation, pool, now, running, budget, locals, ghosts>>

\* leaving the with block: return self.cached_token (line 160), or fall
\* through to refresh_token (line 163)
GetCachedUnlock(r) ==
    /\ running = r
    /\ pc[r] \in {"cache_hit", "cache_miss"}
    /\ Release(r)
    /\ IF pc[r] = "cache_hit"
       THEN token' = [token EXCEPT ![r] = cached_token] /\ Goto(r, "send")
       ELSE token' = token /\ Goto(r, "refresh")
    /\ cycled' = IF pc[r] = "cache_hit" THEN cycled ELSE FALSE
    /\ UNCHANGED <<startup, diagnostics, pool, now, running, budget, request_body, retries, new_token,
                   stack, current_token, response, exc, frames, http_status,
                   cycle_report, ghosts>>

\* ------------------------------------------------------ refresh_token ---
\* line 171: get_next_available_token under the lock; a new activation of
\* refresh_token with its locals refresh_token and token_index (cycles_left
\* notes how many manual rotations were still to come at the selection, and
\* is carried by the token minted with the credential)
RefreshSelect(r) ==
    /\ running = r
    /\ pc[r] = "refresh"
    /\ Acquire(r)
    /\ LET sel == GetNextAvailableToken(tokens, current_index, token_statuses, now)
       IN  /\ current_index' = sel.current_index
           /\ token_statuses' = sel.token_statuses
           /\ stack' = [stack EXCEPT ![r] =
                          Append(@, [refresh_token |-> sel.token,
                                     token_index |-> sel.index, site |-> "none",
                                     cycles_left |-> budget.cycles])]
    /\ Goto(r, "selected")
    /\ UNCHANGED <<startup, diagnostics, rotation, tokens, cache_queue, cached_token, now, running, budget,
                   request_body, retries, token, new_token, current_token,
                   response, exc, frames, http_status, ghosts>>

\* lines 174-182: the lock is released and the exchange call is awaited
RefreshSend_HoldsLock(r) ==
    /\ running = r
    /\ pc[r] = "selected"
    /\ running' = Idle
    /\ nexch' = [nexch EXCEPT ![r] = @ + 1]
    /\ Goto(r, "exchange")
    /\ UNCHANGED <<startup, diagnostics, rotation, pool, lock, now, budget, locals, hist, exchanges>>

RefreshSend(r) ==
    /\ running = r
    /\ pc[r] = "selected"
    /\ Release(r)
    /\ running' = Idle
    /\ nexch' = [nexch EXCEPT ![r] = @ + 1]
    /\ Goto(r, "exchange")
    /\ UNCHANGED <<startup, diagnostics, rotation, pool, now, budget, locals, hist, exchanges>>

\* lines 183-194: the token-exchange endpoint answers (or the call fails)
ExchangeOk(r) ==
    /\ running = Idle
    /\ pc[r] = "exchange"
    /\ running' = r
    /\ \E life \in TokenLifetimes :
          new_token' = [new_token EXCEPT ![r] =
                          [token |-> Top(r).refresh_token, by |-> r,
                           expires_at |-> now + life,
                           cycles_left |-> Top(r).cycles_left]]
    /\ stack' = [stack EXCEPT ![r] = <<>>]
    /\ exc' = [exc EXCEPT ![r] = NoException]
    /\ exchanges' = [exchanges EXCEPT ![r] =
                         Append(@, [token |-> Top(r).refresh_token, status |-> 200])]
    /\ Goto(r, "cache")
    /\ UNCHANGED <<startup, diagnostics, rotation, pool, lock, now, budget, request_body, retries, token,
                   current_token, response, frames, http_status, hist, nexch>>

ExchangeRateLimited(r) ==
    /\ running = Idle
    /\ pc[r] = "exchange"
    /\ budget.faults > 0
    /\ budget' = [budget EXCEPT !.faults = @ - 1]
    /\ running' = r
    /\ exchanges' = [exchanges EXCEPT ![r] =
                         Append(@, [token |-> Top(r).refresh_token, status |-> 429])]
    /\ Goto(r, "refresh_429")
    /\ UNCHANGED <<startup, diagnostics, rotation, pool, lock, now, locals, hist, nexch>>

ExchangeFailed(r) ==
    /\ running = Idle
    /\ pc[r] = "exchange"
    /\ budget.faults > 0
    /\ budget' = [budget EXCEPT !.faults = @ - 1]
    /\ running' = r
    /\ exc' = [exc EXCEPT ![r] = EXCHANGE_ERROR]
    /\ exchanges' = [exchanges EXCEPT ![r] =
                         Append(@, [token |-> Top(r).refresh_token, status |-> 500])]
    /\ Goto(r, "refresh_except")
    /\ UNCHANGED <<startup, diagnostics, rotation, pool, lock, now, request_body, retries, token,
                   new_token, stack, current_token, response, frames,
                   http_status, hist, nexch>>

\* line 188 and line 197: mark_token_rate_limited(refresh_token)
RefreshMark_NoPenalty(r) ==
    /\ running = r
    /\ pc[r] \in {"refresh_429", "refresh_except"}
    /\ Acquire(r)
    /\ token_statuses' = token_statuses
    /\ Goto(r, IF pc[r] = "refresh_429" THEN "refresh_429_marked"
                                       ELSE "refresh_except_marked")
    /\ UNCHANGED <<startup, diagnostics, rotation, tokens, current_index, cache_queue, cached_token, now, running,
                   budget, locals, ghosts>>

RefreshMark(r) ==
    /\ running = r
    /\ pc[r] \in {"refresh_429", "refresh_except"}
    /\ Acquire(r)
    /\ token_statuses' = MarkTokenRateLimited(token_statuses, Top(r).refresh_token, now)
    /\ Goto(r, IF pc[r] = "refresh_429" THEN "refresh_429_marked"
                                       ELSE "refresh_except_marked")
    /\ UNCHANGED <<startup, diagnostics, rotation, tokens, current_index, cache_queue, cached_token, now, running,
                   budget, locals, ghosts>>

\* line 190: return await self.refresh_token(), called inside the try block
Refresh429Retry(r) ==
    /\ running = r
    /\ pc[r] = "refresh_429_marked"
    /\ Release(r)
    /\ stack' = [stack EXCEPT ![r] = SetSite(@, "try")]
    /\ Goto(r, "refresh")
    /\ UNCHANGED <<startup, diagnostics, rotation, pool, now, running, budget, request_body, retries, token,
                   new_token, current_token, response, exc, frames, http_status,
                   ghosts>>

RefreshExceptUnlock(r) ==
    /\ running = r
    /\ pc[r] = "refresh_except_marked"
    /\ Release(r)
    /\ Goto(r, "refresh_except_check")
    /\ UNCHANGED <<startup, diagnostics, rotation, pool, now, running, budget, locals, ghosts>>

\* lines 198-201: retry from the handler if a token is available, else raise
RefreshExceptCheck_AlwaysRetries(r) ==
    /\ running = r
    /\ pc[r] = "refresh_except_check"
    /\ stack' = [stack EXCEPT ![r] = SetSite(@, "handler")]
    /\ Goto(r, "refresh")
    /\ UNCHANGED <<startup, diagnostics, rotation, pool, lock, now, running, budget, request_body, retries, token,
                   new_token, current_token, response, exc, frames, http_status,
                   ghosts>>

RefreshExceptCheck(r) ==
    /\ running = r
    /\ pc[r] = "refresh_except_check"
    /\ IF AnyTokenAvailable(token_statuses, now)
       THEN stack' = [stack EXCEPT ![r] = SetSite(@, "handler")] /\ Goto(r, "refresh")
       ELSE stack' = stack /\ Goto(r, "refresh_raise")
    /\ UNCHANGED <<startup, diagnostics, rotation, pool, lock, now, running, budget, request_body, retries, token,
                   new_token, current_token, response, exc, frames, http_status,
                   ghosts>>

\* an exception leaves the innermost activation of refresh_token: the caller
\* catches it (line 195) if it called from its try block, passes it on if it
\* called from its handler, and get_cached_copilot_token passes it to
\* make_api_request
RefreshRaise(r) ==
    /\ running = r
    /\ pc[r] = "refresh_raise"
    /\ LET rest == SubSeq(stack[r], 1, Len(stack[r]) - 1)
       IN  /\ stack' = [stack EXCEPT ![r] = rest]
           /\ Goto(r, IF rest = <<>> THEN "api_except"
                      ELSE IF rest[Len(rest)].site = "try" THEN "refresh_except"
                      ELSE "refresh_raise")
    /\ UNCHANGED <<startup, diagnostics, rotation, pool, lock, now, running, budget, request_body, retries, token,
                   new_token, current_token, response, exc, frames, http_status,
                   ghosts>>

\* -------------------------------------------------- cache_copilot_token ---
\* lines 137-143 under the lock; put blocks while the queue is full
CacheLock_NoDrain(r) ==
    /\ running = r
    /\ pc[r] = "cache"
    /\ Acquire(r)
    /\ cached_token' = new_token[r]
    /\ Len(cache_queue) < QUEUE_MAXSIZE
    /\ cache_queue' = Append(cache_queue, new_token[r])
    /\ Goto(r, "cache_stored")
    /\ UNCHANGED <<startup, diagnostics, rotation, tokens, current_index, token_statuses, now, running, budget,
                   locals, ghosts>>

CacheLock_KeepsFirst(r) ==
    /\ running = r
    /\ pc[r] = "cache"
    /\ Acquire(r)
    /\ cached_token' = IF cached_token = None THEN new_token[r] ELSE cached_token
    /\ LET drained == IF cache_queue # <<>> THEN Tail(cache_queue) ELSE cache_queue
       IN  /\ Len(drained) < QUEUE_MAXSIZE
           /\ cache_queue' = Append(drained, new_token[r])
    /\ Goto(r, "cache_stored")
    /\ UNCHANGED <<startup, diagnostics, rotation, tokens, current_index, token_statuses, now, running, budget,
                   locals, ghosts>>

CacheLock(r) ==
    /\ running = r
    /\ pc[r] = "cache"
    /\ Acquire(r)
    /\ cached_token' = new_token[r]
    /\ LET drained == IF cache_queue # <<>> THEN Tail(cache_queue) ELSE cache_queue
       IN  /\ Len(drained) < QUEUE_MAXSIZE
           /\ cache_queue' = Append(drained, new_token[r])
    /\ Goto(r, "cache_stored")
    /\ UNCHANGED <<startup, diagnostics, rotation, tokens, current_index, token_statuses, now, running, budget,
                   locals, ghosts>>

\* line 165: return new_token, which make_api_request binds to token
CacheUnlock(r) ==
    /\ running = r
    /\ pc[r] = "cache_stored"
    /\ Release(r)
    /\ token' = [token EXCEPT ![r] = new_token[r]]
    /\ exchanges' = [exchanges EXCEPT ![r] = <<>>]
    /\ Goto(r, "send")
    /\ UNCHANGED <<startup, diagnostics, rotation, pool, now, running, budget, request_body, retries, new_token,
                   stack, current_token, response, exc, frames, http_status, hist, nexch>>


\* ---------------------------------------------------- make_api_request ---
\* lines 133-137: the Authorization header is set and the call is awaited
Send(r) ==
    /\ running = r
    /\ pc[r] = "send"
    /\ running' = Idle
    /\ Goto(r, "upstream")
    /\ UNCHANGED <<startup, diagnostics, rotation, pool, lock, now, budget, locals, ghosts>>

\* line 137: upstream answers with a status; any status but 429 goes to the
\* return of line 147
UpstreamResponse_RotateOnAnyError(r) ==
    /\ running = Idle
    /\ pc[r] = "upstream"
    /\ running' = r
    /\ \E resp \in UpstreamResponses :
          /\ resp.status # 200 => budget.errors > 0
          /\ budget' = IF resp.status # 200 THEN [budget EXCEPT !.errors = @ - 1]
                                            ELSE budget
          /\ response' = [response EXCEPT ![r] = resp]
          /\ hist' = [hist EXCEPT ![r] = Append(@, resp.status)]
          /\ Goto(r, IF resp.status # 200 THEN "rate_limited" ELSE "returned")
    /\ UNCHANGED <<startup, diagnostics, rotation, pool, lock, now, request_body, retries, token, new_token,
                   stack, current_token, exc, frames, http_status, nexch, exchanges>>

UpstreamResponse(r) ==
    /\ running = Idle
    /\ pc[r] = "upstream"
    /\ running' = r
    /\ \E resp \in UpstreamResponses :
          /\ resp.status # 200 => budget.errors > 0
          /\ budget' = IF resp.status # 200 THEN [budget EXCEPT !.errors = @ - 1]
                                            ELSE budget
          /\ response' = [response EXCEPT ![r] = resp]
          /\ hist' = [hist EXCEPT ![r] = Append(@, resp.status)]
          /\ Goto(r, IF resp.status = 429 THEN "rate_limited" ELSE "returned")
    /\ UNCHANGED <<startup, diagnostics, rotation, pool, lock, now, request_body, retries, token, new_token,
                   stack, current_token, exc, frames, http_status, nexch, exchanges>>

\* line 137: the call fails at the transport level
UpstreamFailure(r) ==
    /\ running = Idle
    /\ pc[r] = "upstream"
    /\ budget.errors > 0
    /\ budget' = [budget EXCEPT !.errors = @ - 1]
    /\ running' = r
    /\ exc' = [exc EXCEPT ![r] = TRANSPORT_ERROR]
    /\ hist' = [hist EXCEPT ![r] = Append(@, 0)]
    /\ Goto(r, "api_except")
    /\ UNCHANGED <<startup, diagnostics, rotation, pool, lock, now, request_body, retries, token, new_token,
                   stack, current_token, response, frames, http_status, nexch,
                   exchanges>>

\* line 140: current_token = token_manager.tokens[token_manager.current_index]
ReadCurrentToken(r) ==
    /\ running = r
    /\ pc[r] = "rate_limited"
    /\ current_token' = [current_token EXCEPT ![r] = tokens[current_index + 1]]
    /\ Goto(r, "mark")
    /\ UNCHANGED <<startup, diagnostics, rotation, pool, lock, now, running, budget, request_body, retries, token,
                   new_token, stack, response, exc, frames, http_status, ghosts>>

\* line 141: token_manager.mark_token_rate_limited(current_token)
MarkLock(r) ==
    /\ running = r
    /\ pc[r] = "mark"
    /\ Acquire(r)
    /\ token_statuses' = MarkTokenRateLimited(token_statuses, current_token[r], now)
    /\ Goto(r, "marked")
    /\ UNCHANGED <<startup, diagnostics, rotation, tokens, current_index, cache_queue, cached_token, now, running,
                   budget, locals, ghosts>>

\* lines 142-145: count the attempt; continue while attempts remain, else
\* fall through to the return of line 147
MarkUnlock(r) ==
    /\ running = r
    /\ pc[r] = "marked"
    /\ Release(r)
    /\ retries' = [retries EXCEPT ![r] = @ + 1]
    /\ Goto(r, IF retries[r] + 1 < MAX_RETRIES THEN "loop" ELSE "returned")
    /\ UNCHANGED <<startup, diagnostics, rotation, pool, now, running, budget, request_body, token, new_token,
                   stack, current_token, response, exc, frames, http_status, ghosts>>

\* lines 148-152: any exception of the attempt counts against the budget
ApiExcept_NoCount(r) ==
    /\ running = r
    /\ pc[r] = "api_except"
    /\ retries' = retries
    /\ IF retries[r] >= MAX_RETRIES
       THEN Goto(r, "stream_except") /\ exc' = exc
       ELSE Goto(r, "loop") /\ exc' = [exc EXCEPT ![r] = NoException]
    /\ exchanges' = [exchanges EXCEPT ![r] = <<>>]
    /\ UNCHANGED <<startup, diagnostics, rotation, pool, lock, now, running, budget, request_body, token, new_token,
                   stack, current_token, response, frames, http_status, hist, nexch>>

ApiExcept(r) ==
    /\ running = r
    /\ pc[r] = "api_except"
    /\ retries' = [retries EXCEPT ![r] = @ + 1]
    /\ IF retries[r] + 1 >= MAX_RETRIES
       THEN Goto(r, "stream_except") /\ exc' = exc
       ELSE Goto(r, "loop") /\ exc' = [exc EXCEPT ![r] = NoException]
    /\ exchanges' = [exchanges EXCEPT ![r] = <<>>]
    /\ UNCHANGED <<startup, diagnostics, rotation, pool, lock, now, running, budget, request_body, token, new_token,
                   stack, current_token, response, frames, http_status, hist, nexch>>

\* ------------------------------------------------------ o1 conversion ---
\* json.loads on the bodies of OkTexts: JsonRaises is the JSONDecodeError case
JsonRaises(text) == text \notin { TEXT_TWO_CHOICES, TEXT_ONE_CHOICE, TEXT_NO_INDEX }

JsonLoads(text) ==
    CASE text = TEXT_TWO_CHOICES ->
           [id |-> "c1", created |-> 7, model |-> "o1-preview",
            choices |-> << [index |-> 0, message |-> [content |-> "a"],
                            finish_reason |-> "stop"],
                           [index |-> 1, message |-> [content |-> "b"]] >>]
      [] text = TEXT_ONE_CHOICE ->
           [choices |-> << [index |-> 0, message |-> [content |-> "a"]] >>]
      [] text = TEXT_NO_INDEX ->
           [choices |-> << [message |-> [content |-> "a"]] >>]
      [] OTHER -> [invalid |-> text]

JsonDumps(obj) == [json |-> obj]

Has(d, key) == key \in DOMAIN d

Get(d, key, default) == IF Has(d, key) THEN d[key] ELSE default

ConvertChoice_DropsFinishReason(choice) ==
    [index |-> choice.index, delta |-> [content |-> choice.message.content]]

ConvertChoice(choice) ==
    IF Has(choice, "finish_reason")
    THEN [index |-> choice.index, delta |-> [content |-> choice.message.content],
          finish_reason |-> choice.finish_reason]
    ELSE [index |-> choice.index, delta |-> [content |-> choice.message.content]]

RECURSIVE ConvertChoices(_)
ConvertChoices(choices) ==
    IF choices = <<>> THEN <<>>
    ELSE IF Has(Head(choices), "message")
         THEN <<ConvertChoice(Head(choices))>> \o ConvertChoices(Tail(choices))
         ELSE ConvertChoices(Tail(choices))

\* the KeyError convert_o1_response raises, if any
ConvertO1Raises(data) ==
    /\ Has(data, "choices")
    /\ \E i \in DOMAIN data.choices :
          /\ Has(data.choices[i], "message")
          /\ ~Has(data.choices[i], "index")

ConvertO1Response(data) ==
    IF ~Has(data, "choices") THEN data
    ELSE IF data.choices = <<>> THEN data
    ELSE [k \in DOMAIN data |->
            IF k = "choices" THEN ConvertChoices(data.choices) ELSE data[k]]

SseFrame(payload) == [sse_data |-> payload]

ConvertToSseEvents(data) ==
    (IF Has(data, "choices")
     THEN [i \in DOMAIN data.choices |->
             SseFrame(JsonDumps([id |-> Get(data, "id", ""),
                                 created |-> Get(data, "created", 0),
                                 model |-> Get(data, "model", ""),
                                 choices |-> <<data.choices[i]>>]))]
     ELSE <<>>)
    \o <<SseFrame("[DONE]")>>

BytesFrame(text) == [bytes |-> text]

ErrorFrame(message) == JsonDumps([error |-> message])

\* lines 226-229: f"API error: {error_message}"
ApiErrorMessage_Bare(text) == text

ApiErrorMessage(text) == "API error: " \o text

\* model.startswith("o1") for the models of RequestBodies
StartsWithO1(model) == model \in {"o1-preview", "o1-mini"}

\* ------------------------------------------------------ stream_response ---
\* lines 225-241: the frames yielded once make_api_request has returned
StreamBody(r) ==
    /\ running = r
    /\ pc[r] = "returned"
    /\ LET status == response[r].status
           text == response[r].text
           model == Get(request_body[r], "model", "")
           is_streaming == Get(request_body[r], "stream", FALSE)
           o1 == StartsWithO1(model) /\ is_streaming
           data == JsonLoads(text)
       IN  IF status # 200
           THEN /\ frames' = [frames EXCEPT ![r] =
                                 Append(@, ErrorFrame(ApiErrorMessage(text)))]
                /\ exc' = exc
                /\ Goto(r, "done")
                /\ running' = Idle
           ELSE IF ~o1
           THEN /\ frames' = [frames EXCEPT ![r] = Append(@, BytesFrame(text))]
                /\ exc' = exc
                /\ Goto(r, "done")
                /\ running' = Idle
           ELSE IF JsonRaises(text)
           THEN /\ exc' = [exc EXCEPT ![r] = JSON_ERROR]
                /\ Goto(r, "stream_except")
                /\ UNCHANGED <<frames, running>>
           ELSE IF ConvertO1Raises(data)
           THEN /\ exc' = [exc EXCEPT ![r] = KEY_ERROR_INDEX]
                /\ Goto(r, "stream_except")
                /\ UNCHANGED <<frames, running>>
           ELSE /\ frames' = [frames EXCEPT ![r] =
                                 @ \o ConvertToSseEvents(ConvertO1Response(data))]
                /\ exc' = exc
                /\ Goto(r, "done")
                /\ running' = Idle
    /\ UNCHANGED <<startup, diagnostics, rotation, pool, lock, now, budget, request_body, retries, token, new_token,
                   stack, current_token, response, http_status, ghosts>>

\* lines 243-245: except Exception as e: yield json.dumps({"error": str(e)})
StreamExcept_Silent(r) ==
    /\ running = r
    /\ pc[r] = "stream_except"
    /\ frames' = frames
    /\ running' = Idle
    /\ Goto(r, "done")
    /\ UNCHANGED <<startup, diagnostics, rotation, pool, lock, now, budget, request_body, retries, token, new_token,
                   stack, current_token, response, exc, http_status, ghosts>>

StreamExcept_Generic(r) ==
    /\ running = r
    /\ pc[r] = "stream_except"
    /\ frames' = [frames EXCEPT ![r] = Append(@, ErrorFrame("Internal server error"))]
    /\ running' = Idle
    /\ Goto(r, "done")
    /\ UNCHANGED <<startup, diagnostics, rotation, pool, lock, now, budget, request_body, retries, token, new_token,
                   stack, current_token, response, exc, http_status, ghosts>>

StreamExcept(r) ==
    /\ running = r
    /\ pc[r] = "stream_except"
    /\ frames' = [frames EXCEPT ![r] = Append(@, ErrorFrame(exc[r]))]
    /\ running' = Idle
    /\ Goto(r, "done")
    /\ UNCHANGED <<startup, diagnostics, rotation, pool, lock, now, budget, request_body, retries, token, new_token,
                   stack, current_token, response, exc, http_status, ghosts>>

\* ---------------------------------------------------------- cycle_token ---
\* POST /tokens/cycle: lines 85-105, run without suspension
CycleToken_NoWrap ==
    /\ running = Idle
    /\ lock = Free
    /\ budget.cycles > 0
    /\ \E r \in Requests : pc[r] # "done"
    /\ budget' = [budget EXCEPT !.cycles = @ - 1]
    /\ current_index' = current_index + 1
    /\ cached_token' = None
    /\ cycle_report' =
           IF current_index' < Len(tokens)
           THEN LET status == token_statuses[tokens[current_index' + 1]]
                IN  [previous_index |-> current_index,
                     current_index |-> current_index',
                     total_tokens |-> Len(tokens),
                     current_token_status |->
                         [rate_limited_until |-> status.rate_limited_until,
                          consecutive_failures |-> status.consecutive_failures,
                          is_rate_limited |-> status.rate_limited_until > now]]
           ELSE cycle_report
    /\ cycled' = TRUE
    /\ UNCHANGED <<startup, diagnostics, tokens, token_statuses, lock, cache_queue, now, running, pc,
                   locals, ghosts>>

CycleToken_StaleReport ==
    /\ running = Idle
    /\ lock = Free
    /\ budget.cycles > 0
    /\ \E r \in Requests : pc[r] # "done"
    /\ budget' = [budget EXCEPT !.cycles = @ - 1]
    /\ current_index' = (current_index + 1) % Len(tokens)
    /\ cached_token' = None
    /\ LET status == token_statuses[tokens[current_index + 1]]
       IN  cycle_report' =
               [previous_index |-> current_index,
                current_index |-> current_index',
                total_tokens |-> Len(tokens),
                current_token_status |->
                    [rate_limited_until |-> status.rate_limited_until,
                     consecutive_failures |-> status.consecutive_failures,
                     is_rate_limited |-> status.rate_limited_until > now]]
    /\ cycled' = TRUE
    /\ UNCHANGED <<startup, diagnostics, tokens, token_statuses, lock, cache_queue, now, running, pc,
                   locals, ghosts>>

CycleToken ==
    /\ running = Idle
    /\ lock = Free
    /\ budget.cycles > 0
    /\ \E r \in Requests : pc[r] # "done"
    /\ budget' = [budget EXCEPT !.cycles = @ - 1]
    /\ current_index' = (current_index + 1) % Len(tokens)
    /\ cached_token' = None
    /\ LET status == token_statuses[tokens[current_index' + 1]]
       IN  cycle_report' =
               [previous_index |-> current_index,
                current_index |-> current_index',
                total_tokens |-> Len(tokens),
                current_token_status |->
                    [rate_limited_until |-> status.rate_limited_until,
                     consecutive_failures |-> status.consecutive_failures,
                     is_rate_limited |-> status.rate_limited_until > now]]
    /\ cycled' = TRUE
    /\ UNCHANGED <<startup, diagnostics, tokens, token_statuses, lock, cache_queue, now, running, pc,
                   locals, ghosts>>

\* --------------------------------------------------------- token_status ---
\* GET /tokens/status: get_token_status lines 109-121, run without suspension
TokenStatus ==
    /\ running = Idle
    /\ lock = Free
    /\ nstatus < MaxStatusReads
    /\ \E r \in Requests : pc[r] # "done"
    /\ nstatus' = nstatus + 1
    /\ status_report' = GetTokenStatus(tokens, current_index, token_statuses, now)
    /\ reported' = <<current_index, token_statuses, cached_token, cache_queue>>
    /\ UNCHANGED <<startup, rotation, pool, lock, now, running, budget, pc, locals,
                   ghosts>>

\* ----------------------------------------------------------------- clock ---
\* time passes while a request is in flight or between two requests; before
\* the first request a later start only shifts every timestamp
Tick ==
    /\ running = Idle
    /\ budget.ticks > 0
    /\ budget' = [budget EXCEPT !.ticks = @ - 1]
    /\ \E r \in Requests : pc[r] # "done"
    /\ \E r \in Requests : pc[r] # "init"
    /\ \E step \in TickSteps : now' = now + step
    /\ UNCHANGED <<startup, diagnostics, rotation, pool, lock, running, pc, locals, ghosts>>

Next ==
    \/ \E r \in Requests : StartRequest(r)
    \/ \E r \in Requests : LoopTest(r)
    \/ \E r \in Requests : GetCachedLock(r)
    \/ \E r \in Requests : GetCachedUnlock(r)
    \/ \E r \in Requests : RefreshSelect(r)
    \/ \E r \in Requests : RefreshSend(r)
    \/ \E r \in Requests : ExchangeOk(r)
    \/ \E r \in Requests : ExchangeRateLimited(r)
    \/ \E r \in Requests : ExchangeFailed(r)
    \/ \E r \in Requests : RefreshMark(r)
    \/ \E r \in Requests : Refresh429Retry(r)
    \/ \E r \in Requests : RefreshExceptUnlock(r)
    \/ \E r \in Requests : RefreshExceptCheck(r)
    \/ \E r \in Requests : RefreshRaise(r)
    \/ \E r \in Requests : CacheLock(r)
    \/ \E r \in Requests : CacheUnlock(r)
    \/ \E r \in Requests : Send(r)
    \/ \E r \in Requests : UpstreamResponse(r)
    \/ \E r \in Requests : UpstreamFailure(r)
    \/ \E r \in Requests : ReadCurrentToken(r)
    \/ \E r \in Requests : MarkLock(r)
    \/ \E r \in Requests : MarkUnlock(r)
    \/ \E r \in Requests : ApiExcept(r)
    \/ \E r \in Requests : StreamBody(r)
    \/ \E r \in Requests : StreamExcept(r)
    \/ CycleToken
    \/ Tick

Spec == Init /\ [][Next]_vars

SpecConcurrent == InitConcurrent /\ [][Next]_vars

SpecStartup == InitStartup /\ [][Next]_vars

NextStatus ==
    \/ Next
    \/ TokenStatus

SpecStatus == InitStatus /\ [][NextStatus]_vars

\* the steps of a request that has arrived: the event loop resumes a ready
\* coroutine, and every network call ends in a response or a failure (the
\* client sessions carry a total timeout)
RequestStep(r) ==
    \/ LoopTest(r) \/ GetCachedLock(r) \/ GetCachedUnlock(r)
    \/ RefreshSelect(r) \/ RefreshSend(r)
    \/ ExchangeOk(r) \/ ExchangeRateLimited(r) \/ ExchangeFailed(r)
    \/ RefreshMark(r) \/ Refresh429Retry(r) \/ RefreshExceptUnlock(r)
    \/ RefreshExceptCheck(r) \/ RefreshRaise(r)
    \/ CacheLock(r) \/ CacheUnlock(r) \/ Send(r)
    \/ UpstreamResponse(r) \/ UpstreamFailure(r)
    \/ ReadCurrentToken(r) \/ MarkLock(r) \/ MarkUnlock(r)
    \/ ApiExcept(r) \/ StreamBody(r) \/ StreamExcept(r)

FairSpec == InitSparse /\ [][Next]_vars /\ \A r \in Requests : WF_vars(RequestStep(r))


\* ================================================================ claims ===
Started == { r \in Requests : pc[r] \notin {"init", "absent"} }

\* make_api_request of r has ended: it returned or raised
ApiEnded(r) == pc[r] \in {"returned", "stream_except", "done"}

Undisturbed ==
    /\ budget.ticks = MaxTicks
    /\ budget.cycles = MaxCycles
    /\ budget.faults = MaxExchangeFaults

Penalized == { t \in DOMAIN token_statuses :
                 /\ token_statuses[t].consecutive_failures >= 1
                 /\ token_statuses[t].rate_limited_until > now }

\* C1: after an attempt answered 429 with attempts remaining, the cached token
\* is discarded, so the next attempt of the same request never takes the
\* cached token again but mints one through refresh_token.
C1_NextAttemptMintsAfter429 ==
    \A r \in Requests :
        (pc[r] = "cache_hit" /\ hist[r] # <<>>) => Last(hist[r]) # 429

\* C2: scenario A - 3 credentials, the exchange always succeeds, upstream
\* answers 429, 429, 200: the 200 is returned and exactly two distinct
\* credentials are penalized (consecutive_failures >= 1, rate_limited_until
\* in the future) when make_api_request returns.
C2_ScenarioA ==
    \A r \in Requests :
        (/\ Len(tokens) = 3
         /\ Started = {r}
         /\ Undisturbed
         /\ hist[r] = <<429, 429, 200>>
         /\ pc[r] = "returned")
        => (response[r].status = 200 /\ Cardinality(Penalized) = 2)

\* C3: whenever make_api_request penalizes a credential for an upstream 429,
\* that credential is the one that minted the access token used for the
\* attempt.
C3_PenalizedMintedTheToken ==
    \A r \in Requests :
        pc[r] = "mark" => current_token[r] = token[r].token

\* C4: when every attempt of the retry budget is answered 429,
\* make_api_request ends by raising the pool-exhausted error (HTTP 429, "All
\* tokens are rate limited. Please try again later.").
C4_PoolExhaustedRaised ==
    \A r \in Requests :
        (ApiEnded(r) /\ hist[r] = <<429, 429, 429>>)
        => (pc[r] # "returned" /\ exc[r] = POOL_EXHAUSTED)

\* C5: scenario B - one credential, an access token that stays valid (minted
\* once, then served from the cache), upstream answers 429 on every attempt:
\* when the request ends the credential's consecutive_failures is MAX_RETRIES.
C5_ScenarioB ==
    \A r \in Requests :
        (/\ Len(tokens) = 1
         /\ Started = {r}
         /\ ApiEnded(r)
         /\ hist[r] = <<429, 429, 429>>
         /\ nexch[r] = 1)
        => token_statuses[tokens[1]].consecutive_failures = MAX_RETRIES

C5_Witness ==
    \E r \in Requests :
        /\ Len(tokens) = 1
        /\ Started = {r}
        /\ pc[r] = "done"
        /\ hist[r] = <<429, 429, 429>>
        /\ nexch[r] = 1


\* C6: an upstream status other than 200 and 429 ends make_api_request after
\* that one call, and neither the handling of the answer nor the rest of the
\* request changes the pool: credential statuses, current_index and the
\* cached token stay as they were.
C6_OtherStatusLeavesPool ==
    [][\A r \in Requests :
          LET answered == /\ pc[r] = "upstream"
                          /\ hist'[r] # hist[r]
                          /\ Last(hist'[r]) \notin {0, 200, 429}
              returning == /\ pc[r] = "returned"
                           /\ response[r].status \notin {200, 429}
                           /\ pc'[r] # pc[r]
          IN  (answered \/ returning)
              => /\ UNCHANGED <<tokens, current_index, token_statuses,
                                cached_token, cache_queue>>
                 /\ retries'[r] = retries[r]
                 /\ pc'[r] = IF answered THEN "returned" ELSE "done"]_vars

C6_Witness ==
    \E r \in Requests :
        /\ pc[r] = "done"
        /\ Last(hist[r]) = 500
        /\ response[r].status = 500

Unsuccessful(h) == Cardinality({ i \in DOMAIN h : h[i] \in {0, 429} })

C8_SharedRetryBudget ==
    /\ [](\A r \in Requests :
            /\ Len(hist[r]) <= MAX_RETRIES
            /\ pc[r] \notin {"rate_limited", "mark", "marked", "api_except"}
               => Unsuccessful(hist[r]) <= retries[r])
    /\ [][\A r \in Requests :
            (pc[r] = "api_except" /\ pc'[r] # pc[r])
            => /\ retries'[r] = retries[r] + 1
               /\ retries'[r] < MAX_RETRIES => pc'[r] = "loop"
               /\ retries'[r] >= MAX_RETRIES
                  => (pc'[r] = "stream_except" /\ exc'[r] = exc[r])]_vars

C8_Witness ==
    \E r \in Requests :
        /\ pc[r] = "stream_except"
        /\ exc[r] = TRANSPORT_ERROR
        /\ hist[r] = <<429, 0, 0>>
        /\ retries[r] = MAX_RETRIES

\* C9: every request that has started reaches the terminal state, and there
\* it has written at least one frame: either success frames only, or one
\* error frame.
IsErrorFrame(f) == "json" \in DOMAIN f

C9_AlwaysAFrame ==
    /\ [](\A r \in Requests :
            pc[r] = "done"
            => /\ Len(frames[r]) >= 1
               /\ \/ \A i \in DOMAIN frames[r] : ~IsErrorFrame(frames[r][i])
                  \/ (Len(frames[r]) = 1 /\ IsErrorFrame(frames[r][1])))
    /\ \A r \in Requests : (pc[r] = "loop") ~> (pc[r] = "done")

C9_Witness ==
    \E r \in Requests :
        /\ pc[r] = "done"
        /\ hist[r] = <<429, 0, 200>>
        /\ Len(frames[r]) = 3

\* C10: an exception that reaches stream_response is turned into the single
\* frame {"error": str(e)}: no frame precedes it and none follows it.
C10_ExceptionBecomesOneFrame ==
    \A r \in Requests :
        /\ pc[r] = "stream_except" => frames[r] = <<>>
        /\ (pc[r] = "done" /\ exc[r] # NoException)
           => frames[r] = <<[json |-> [error |-> exc[r]]]>>

C10_Witness ==
    \E r \in Requests :
        /\ pc[r] = "done"
        /\ exc[r] = JSON_ERROR
        /\ response[r].status = 200

\* ----------------------------------------------------------------- C11 ---
\* the request asked for an o1 model with streaming
O1Streaming(r) ==
    /\ "model" \in DOMAIN request_body[r]
    /\ request_body[r].model = "o1-preview"
    /\ "stream" \in DOMAIN request_body[r]
    /\ request_body[r].stream = TRUE

\* the request ended on an upstream 200 whose body is a JSON object with choices
AnsweredWithChoices(r) ==
    /\ pc[r] = "done"
    /\ response[r].status = 200
    /\ response[r].text \in { TEXT_TWO_CHOICES, TEXT_ONE_CHOICE, TEXT_NO_INDEX }

\* choice i as a delta: the message content under delta.content, every other
\* key of the choice (index, finish_reason) as it was
AsDelta(choice) ==
    [k \in (DOMAIN choice \ {"message"}) \cup {"delta"} |->
        IF k = "delta" THEN [content |-> choice.message.content] ELSE choice[k]]

\* n data frames in choice order, then one [DONE] frame
IsSseRendering(out, data) ==
    LET n == Len(data.choices)
        field(key, default) == IF key \in DOMAIN data THEN data[key] ELSE default
    IN  /\ Len(out) = n + 1
        /\ \A i \in 1..n :
              out[i] = [sse_data |-> [json |->
                           [id |-> field("id", ""), created |-> field("created", 0),
                            model |-> field("model", ""),
                            choices |-> <<AsDelta(data.choices[i])>>]]]
        /\ out[n + 1] = [sse_data |-> "[DONE]"]

EmittedVerbatim(r) == frames[r] = <<[bytes |-> response[r].text]>>

\* C11 as stated: for an o1 model with stream=true and a 200 JSON body with n
\* choices each carrying a message, the output is n SSE data frames in choice
\* order (content as delta, finish_reason kept) and one final [DONE] frame;
\* for any other model or without streaming the body is emitted verbatim.
C11_EveryMessageChoiceBecomesAFrame ==
    \A r \in Requests :
        /\ (AnsweredWithChoices(r) /\ O1Streaming(r))
           => LET data == JsonLoads(response[r].text)
              IN  (\A i \in DOMAIN data.choices : "message" \in DOMAIN data.choices[i])
                  => IsSseRendering(frames[r], data)
        /\ (pc[r] = "done" /\ response[r].status = 200 /\ ~O1Streaming(r))
           => EmittedVerbatim(r)

\* C11 amended: the same for a 200 JSON body with n choices each carrying an
\* index and a message with content.
C11_IndexedMessageChoiceBecomesAFrame ==
    \A r \in Requests :
        /\ (AnsweredWithChoices(r) /\ O1Streaming(r))
           => LET data == JsonLoads(response[r].text)
              IN  (\A i \in DOMAIN data.choices :
                      /\ "index" \in DOMAIN data.choices[i]
                      /\ "message" \in DOMAIN data.choices[i]
                      /\ "content" \in DOMAIN data.choices[i].message)
                  => IsSseRendering(frames[r], data)
        /\ (pc[r] = "done" /\ response[r].status = 200 /\ ~O1Streaming(r))
           => EmittedVerbatim(r)

C11_Witness ==
    \E r \in Requests :
        /\ pc[r] = "done"
        /\ O1Streaming(r)
        /\ response[r] = [status |-> 200, text |-> TEXT_TWO_CHOICES]
        /\ Len(frames[r]) = 3
        /\ frames[r][1].sse_data.json.choices[1].finish_reason = "stop"

\* ----------------------------------------------------------- C12 - C14 ---
\* a step in which request r calls get_next_available_token, and what the
\* call returned
Selects(r) == pc[r] = "refresh" /\ pc'[r] = "selected"

Returned(r) == stack'[r][Len(stack'[r])]

\* indices of the credentials with rate_limited_until <= now, before the call
Usable == { i \in 0..(Len(tokens) - 1) :
              token_statuses[tokens[i + 1]].rate_limited_until <= now }

\* number of positions from current_index forward to i, wrapping at the end
CircularDistance(i) == (i - current_index + Len(tokens)) % Len(tokens)

FreshPool ==
    /\ current_index = 0
    /\ \A t \in DOMAIN token_statuses : token_statuses[t].rate_limited_until = 0

\* C12: whenever some credential has rate_limited_until <= now,
\* get_next_available_token returns the first such credential in circular
\* order from current_index (with its index); on a freshly constructed pool
\* that is credential 0, and a credential still rate-limited is skipped.
C12_FirstUsableInCircularOrder ==
    [][\A r \in Requests :
          (Selects(r) /\ Usable # {})
          => /\ Returned(r).token_index \in Usable
             /\ \A j \in Usable :
                   CircularDistance(Returned(r).token_index) <= CircularDistance(j)
             /\ Returned(r).refresh_token = tokens[Returned(r).token_index + 1]
             /\ FreshPool => Returned(r).token_index = 0]_vars

\* credential 0 is returned by wrapping round from the last credential, which
\* is still rate-limited (no manual rotation has moved the index)
C12_Witness ==
    \E r \in Requests :
        /\ pc[r] = "selected"
        /\ Len(tokens) >= 2
        /\ Top(r).token_index = 0
        /\ Top(r).refresh_token = tokens[1]
        /\ token_statuses[tokens[Len(tokens)]].rate_limited_until > now
        /\ current_index = 0
        /\ budget.cycles = MaxCycles
        /\ hist[r] = <<429, 429>>

\* C13: when every credential has rate_limited_until > now,
\* get_next_available_token still returns a credential of the pool, one whose
\* rate_limited_until is minimal, and leaves every status as it was (the
\* returned credential stays rate-limited).
C13_AllLimitedReturnsSoonest ==
    [][\A r \in Requests :
          (Selects(r) /\ Usable = {})
          => /\ \E i \in 0..(Len(tokens) - 1) :
                   /\ Returned(r).token_index = i
                   /\ Returned(r).refresh_token = tokens[i + 1]
             /\ \A u \in DOMAIN token_statuses :
                   token_statuses[Returned(r).refresh_token].rate_limited_until
                      <= token_statuses[u].rate_limited_until
             /\ token_statuses' = token_statuses
             /\ token_statuses'[Returned(r).refresh_token].rate_limited_until > now]_vars

\* both credentials rate-limited with different deadlines; the earlier one
\* has been returned
C13_Witness ==
    \E r \in Requests :
        /\ pc[r] = "selected"
        /\ Len(tokens) = 2
        /\ \A t \in DOMAIN token_statuses : token_statuses[t].rate_limited_until > now
        /\ token_statuses[tokens[1]].rate_limited_until
              < token_statuses[tokens[2]].rate_limited_until
        /\ Top(r).refresh_token = tokens[1]

\* C14: a usable credential returned by get_next_available_token whose
\* rate_limited_until was nonzero has rate_limited_until and
\* consecutive_failures reset to 0; one whose rate_limited_until was already
\* 0 keeps its status unchanged.
C14_LapsedPenaltyIsHealed ==
    [][\A r \in Requests :
          (Selects(r) /\ Usable # {})
          => LET t == Returned(r).refresh_token
             IN  IF token_statuses[t].rate_limited_until # 0
                 THEN /\ token_statuses'[t].rate_limited_until = 0
                      /\ token_statuses'[t].consecutive_failures = 0
                 ELSE token_statuses'[t] = token_statuses[t]]_vars

\* a credential that had been penalized (last_error is kept) is returned
\* with its counters back at 0
C14_Witness ==
    \E r \in Requests :
        /\ pc[r] = "selected"
        /\ token_statuses[Top(r).refresh_token].last_error = "Rate limit exceeded"
        /\ token_statuses[Top(r).refresh_token].rate_limited_until = 0
        /\ token_statuses[Top(r).refresh_token].consecutive_failures = 0

\* ----------------------------------------------------------------- C15 ---
\* a step in which request r calls mark_token_rate_limited, and its argument
Marks(r) ==
    /\ pc[r] \in {"refresh_429", "refresh_except", "mark"}
    /\ pc'[r] \in {"refresh_429_marked", "refresh_except_marked", "marked"}

MarkedToken(r) == IF pc[r] = "mark" THEN current_token[r] ELSE Top(r).refresh_token

InRefresh == { "refresh", "selected", "exchange", "refresh_429",
               "refresh_429_marked", "refresh_except", "refresh_except_marked",
               "refresh_except_check", "refresh_raise" }

\* C16: get_cached_copilot_token returns the cached token unchanged, without
\* calling refresh_token, when the cached token's expires_at > now + 300;
\* when the cache is empty or expires_at <= now + 300 it calls refresh_token
\* once, and when that returns it stores the result as the single cached
\* token (replacing any previous one) and returns it.
C16_CachedWhileFreshElseOneRefresh ==
    [][\A r \in Requests :
          /\ (pc[r] = "get_cached" /\ pc'[r] # pc[r])
             => pc'[r] = IF cached_token # [token |-> "None"]
                            /\ cached_token.expires_at > now + 300
                         THEN "cache_hit" ELSE "cache_miss"
          /\ (pc[r] = "cache_hit" /\ pc'[r] # pc[r])
             => /\ pc'[r] = "send"
                /\ token'[r] = cached_token
                /\ cached_token' = cached_token
                /\ nexch'[r] = nexch[r]
                /\ stack'[r] = <<>>
          /\ (pc[r] = "cache_miss" /\ pc'[r] # pc[r])
             => (pc'[r] = "refresh" /\ stack[r] = <<>>)
          /\ (pc[r] \in InRefresh /\ pc'[r] # pc[r])
             => pc'[r] \in InRefresh \cup {"cache", "api_except"}
          /\ (pc[r] = "cache" /\ pc'[r] # pc[r])
             => /\ pc'[r] = "cache_stored"
                /\ cached_token' = new_token[r]
                /\ cache_queue' = <<new_token[r]>>
          /\ (pc[r] = "cache_stored" /\ pc'[r] # pc[r])
             => /\ pc'[r] = "send"
                /\ token'[r] = new_token[r]
                /\ cached_token' = new_token[r]]_vars

\* a first token minted inside the expiry margin, replaced on the second
\* attempt by a long-lived one, which the third attempt takes from the cache
C16_Witness ==
    \E r \in Requests :
        /\ pc[r] = "send"
        /\ hist[r] = <<429, 429>>
        /\ nexch[r] = 2
        /\ token[r] = cached_token
        /\ cache_queue = <<cached_token>>
        /\ cached_token.expires_at > now + 300
        /\ budget.cycles = MaxCycles
        /\ budget.faults = MaxExchangeFaults

\* ----------------------------------------------------------- C17 - C18 ---
\* C17: cycle_token always invalidates the cache: the first
\* get_cached_copilot_token call after a cycle_token never returns the cached
\* token but calls refresh_token.
C17_FirstCallAfterCycleRefreshes ==
    \A r \in Requests : pc[r] = "cache_hit" => ~cycled

\* a step of cycle_token
Cycles == budget'.cycles = budget.cycles - 1

\* C18: cycle_token sets current_index to (old current_index + 1) mod N and
\* reports previous_index = the old index, current_index = the new index,
\* total_tokens = N and the status of the new current credential; no
\* credential's rate_limited_until or consecutive_failures changes.
C18_CycleAdvancesAndReports ==
    [][Cycles
       => LET N == Len(tokens)
              new == IF current_index = N - 1 THEN 0 ELSE current_index + 1
          IN  /\ current_index' = new
              /\ cycle_report'.previous_index = current_index
              /\ cycle_report'.current_index = new
              /\ cycle_report'.total_tokens = N
              /\ cycle_report'.current_token_status.rate_limited_until
                    = token_statuses[tokens[new + 1]].rate_limited_until
              /\ cycle_report'.current_token_status.consecutive_failures
                    = token_statuses[tokens[new + 1]].consecutive_failures
              /\ \A t \in DOMAIN token_statuses :
                    /\ token_statuses'[t].rate_limited_until
                          = token_statuses[t].rate_limited_until
                    /\ token_statuses'[t].consecutive_failures
                          = token_statuses[t].consecutive_failures]_vars

\* a rotation from the last credential back to credential 0, which carries a
\* penalty that the report shows
C18_Witness ==
    /\ cycle_report # NoReport
    /\ cycle_report.total_tokens >= 2
    /\ cycle_report.previous_index = cycle_report.total_tokens - 1
    /\ cycle_report.current_index = 0
    /\ cycle_report.current_token_status.consecutive_failures >= 1
    /\ cycle_report.current_token_status.is_rate_limited

\* ----------------------------------------------------------------- C19 ---
\* C19: in every reachable state of a constructed manager, whatever the
\* sequence of selection, penalize, manual rotation, refresh and caching,
\* 0 <= current_index < number of credentials, and the credential list is
\* non-empty and is the list loaded at construction.
C19_IndexInRangeListFixed ==
    /\ tokens # <<>>
    /\ current_index >= 0
    /\ current_index < Len(tokens)
    /\ tokens = LoadTokens(environ).tokens

\* the index was moved to the last of three credentials by selections that
\* skipped penalized credentials, and a manual rotation wrapped it to 0
C19_Witness ==
    /\ Len(tokens) = 3
    /\ cycle_report # NoReport
    /\ cycle_report.previous_index = 2
    /\ current_index = 0
    /\ \E t \in DOMAIN token_statuses : token_statuses[t].consecutive_failures > 0
    /\ cached_token # None

\* ----------------------------------------------------------------- C20 ---
\* REFRESH_TOKENS holds an entry that is not blank: some lexeme of it is
\* neither a comma nor whitespace
HasNonBlankEntry ==
    /\ environ.REFRESH_TOKENS.set
    /\ \E i \in DOMAIN environ.REFRESH_TOKENS.value :
          environ.REFRESH_TOKENS.value[i] \notin {",", " "}

\* the legacy REFRESH_TOKEN is the fallback: REFRESH_TOKENS is unset or
\* empty, and REFRESH_TOKEN is set and not empty
LegacyIsFallback ==
    /\ (~environ.REFRESH_TOKENS.set \/ environ.REFRESH_TOKENS.value = <<>>)
    /\ environ.REFRESH_TOKEN.set
    /\ environ.REFRESH_TOKEN.value # <<>>

\* the entries of a comma-separated string that are not blank, each without
\* its leading and trailing whitespace, in the order listed
ListedCredentials(chars) ==
    LET end == Len(chars) + 1
        cuts == {0, end} \cup { i \in DOMAIN chars : chars[i] = "," }
        next(c) == CHOOSE d \in cuts : d > c /\ \A e \in cuts : e > c => d <= e
        inked(c) == { i \in (c + 1)..(next(c) - 1) : chars[i] # " " }
        kept == { c \in cuts \ {end} : inked(c) # {} }
        first(c) == CHOOSE i \in inked(c) : \A j \in inked(c) : i <= j
        last(c) == CHOOSE i \in inked(c) : \A j \in inked(c) : i >= j
        nth(k) == CHOOSE c \in kept : Cardinality({ d \in kept : d < c }) = k - 1
    IN  [k \in 1..Cardinality(kept) |->
            Text(SubSeq(chars, first(nth(k)), last(nth(k))))]

FreshlyConstructed == \A r \in Requests : pc[r] \in {"init", "absent"}

\* C20: TokenManager construction fails exactly when no credential is
\* available, that is when REFRESH_TOKENS holds no non-blank entry and the
\* legacy REFRESH_TOKEN is not the fallback; otherwise the credential list is
\* non-empty and in listed order, and every credential has a status record
\* initialised to rate_limited_until = 0, consecutive_failures = 0,
\* last_error = none.
C20_ConstructionFailsIffNoCredential ==
    /\ (startup_error # "") <=> ~(HasNonBlankEntry \/ LegacyIsFallback)
    /\ (startup_error = "")
       => /\ tokens # <<>>
          /\ tokens = IF HasNonBlankEntry
                      THEN ListedCredentials(environ.REFRESH_TOKENS.value)
                      ELSE <<Text(environ.REFRESH_TOKEN.value)>>
          /\ \A i \in DOMAIN tokens : tokens[i] \in DOMAIN token_statuses
          /\ FreshlyConstructed
             => \A i \in DOMAIN tokens :
                   token_statuses[tokens[i]] =
                       [last_error |-> "None", rate_limited_until |-> 0,
                        consecutive_failures |-> 0]

\* REFRESH_TOKENS is set but lists only blank entries: construction fails,
\* the legacy REFRESH_TOKEN that is set is not consulted
C20_Witness ==
    /\ environ.REFRESH_TOKENS = [set |-> TRUE, value |-> <<" ", ",", " ">>]
    /\ environ.REFRESH_TOKEN = [set |-> TRUE, value |-> <<"token1">>]
    /\ startup_error = NO_VALID_TOKENS
    /\ tokens = <<>>

\* ----------------------------------------------------------------- C21 ---
\* credentials with a failure on record
Failing == { t \in DOMAIN token_statuses : token_statuses[t].consecutive_failures > 0 }

\* the refresh_token call of the first attempt of the only request, with no
\* manual rotation and no time passing
FirstRefresh(r) ==
    /\ Started = {r}
    /\ retries[r] = 0
    /\ hist[r] = <<>>
    /\ budget.ticks = MaxTicks
    /\ budget.cycles = MaxCycles

\* C21: the exchange answers 429 for the selected credential and 200 for the
\* next one: refresh_token returns the token minted with the next credential,
\* current_index points at that credential, and the first credential is the
\* only one penalized (once, for RATE_LIMIT_WINDOW seconds).
C21_Exchange429RotatesToNext ==
    \A r \in Requests :
        (/\ FirstRefresh(r)
         /\ Len(tokens) >= 2
         /\ pc[r] = "cache"
         /\ Len(exchanges[r]) = 2
         /\ exchanges[r][1].status = 429
         /\ exchanges[r][2].status = 200)
        => LET first == exchanges[r][1].token
               second == exchanges[r][2].token
           IN  /\ first = tokens[1]
               /\ second = tokens[2]
               /\ new_token[r].token = second
               /\ tokens[current_index + 1] = second
               /\ Failing = {first}
               /\ token_statuses[first].consecutive_failures = 1
               /\ token_statuses[first].rate_limited_until = now + 60
               /\ token_statuses[second] = InitialStatus

C21_Witness ==
    \E r \in Requests :
        /\ FirstRefresh(r)
        /\ Len(tokens) = 3
        /\ pc[r] = "cache"
        /\ Len(exchanges[r]) = 2
        /\ exchanges[r][1].status = 429
        /\ exchanges[r][2].status = 200
        /\ new_token[r].token = "token2"

\* ----------------------------------------------------------------- C22 ---
\* every exchange call of the refresh_token call under way answered 429
AllAnswered429(r) ==
    /\ exchanges[r] # <<>>
    /\ \A i \in DOMAIN exchanges[r] : exchanges[r][i].status = 429

\* C22: while every exchange call answers 429, one refresh_token call makes at
\* most N exchange calls (N = number of credentials): after the N-th 429 it
\* ends with an error instead of selecting a credential again.
C22_RetryCappedAtPoolSize ==
    \A r \in Requests :
        (AllAnswered429(r) /\ Len(exchanges[r]) >= Len(tokens))
        => pc[r] \notin {"refresh", "selected", "exchange"}

\* ----------------------------------------------------------------- C23 ---
\* the exchange calls of the refresh_token call under way that failed for a
\* reason other than 429
OtherFailures(r) == { i \in DOMAIN exchanges[r] : exchanges[r][i].status \notin {200, 429} }

\* the handler's test of line 198 for request r: leave the handler by a retry
\* or by raise
HandlerDecides(r) == pc[r] = "refresh_except_check" /\ pc'[r] # pc[r]

\* C23 as stated: an exchange failure other than 429 causes at most one
\* additional exchange call within one refresh_token call, so a call whose
\* exchanges failed only that way makes at most two exchange calls.
C23_OtherFailureRetriesOnce ==
    \A r \in Requests :
        LET pending == IF pc[r] = "exchange" THEN 1 ELSE 0
        IN  (\A i \in DOMAIN exchanges[r] : exchanges[r][i].status # 429)
            => Len(exchanges[r]) + pending <= 2

\* C23 amended: an exchange failure other than 429 penalizes the credential
\* used, and refresh_token then retries if some credential is usable
\* (rate_limited_until <= now) and re-raises the error otherwise; a retry that
\* fails the same way is handled the same way again.
C23_OtherFailureRetriesWhileUsable ==
    [][\A r \in Requests :
          /\ (pc[r] = "refresh_except" /\ pc'[r] # pc[r])
             => LET used == Top(r).refresh_token
                IN  /\ token_statuses'[used].consecutive_failures =
                           token_statuses[used].consecutive_failures + 1
                    /\ token_statuses'[used].rate_limited_until = now + 60
                    /\ \A t \in DOMAIN token_statuses :
                           t # used => token_statuses'[t] = token_statuses[t]
          /\ HandlerDecides(r)
             => LET usable == { t \in DOMAIN token_statuses :
                                  token_statuses[t].rate_limited_until <= now }
                IN  /\ usable # {} => pc'[r] = "refresh"
                    /\ usable = {} => pc'[r] = "refresh_raise" /\ exc'[r] = exc[r]
                    /\ exc[r] # NoException
                    /\ UNCHANGED <<current_index, token_statuses, cached_token>>]_vars

\* the third exchange call of one refresh_token call is pending, the first two
\* having failed for a reason other than 429
C23_Witness ==
    \E r \in Requests :
        /\ pc[r] = "exchange"
        /\ Len(exchanges[r]) = 2
        /\ OtherFailures(r) = {1, 2}
        /\ nexch[r] = 3

\* ----------------------------------------------------------------- C24 ---
\* a GET /tokens/status is served
ReadsStatus == nstatus' = nstatus + 1

\* the pool is as the previous GET /tokens/status read it
PoolAsReported ==
    /\ nstatus > 0
    /\ reported = <<current_index, token_statuses, cached_token, cache_queue>>

\* C24 as stated: get_token_status changes no pool state, and a call that
\* finds the pool as the previous call read it returns identical data,
\* is_rate_limited flags included.
C24_StatusIdenticalFlagsIncluded ==
    [][ReadsStatus
       => /\ UNCHANGED <<pool, lock>>
          /\ PoolAsReported => status_report' = status_report]_vars

\* the report without its is_rate_limited flags
SansFlags(report) ==
    [current_index |-> report.current_index,
     total_tokens |-> report.total_tokens,
     tokens |-> [i \in DOMAIN report.tokens |->
                   [index |-> report.tokens[i].index,
                    is_current |-> report.tokens[i].is_current,
                    rate_limited_until |-> report.tokens[i].rate_limited_until,
                    consecutive_failures |-> report.tokens[i].consecutive_failures]]]

\* C24 amended: get_token_status changes no pool state, and a call that finds
\* the pool as the previous call read it returns identical data except for the
\* is_rate_limited flags, which follow the clock: each is true exactly while
\* the credential's rate_limited_until lies after the time of the call.
C24_StatusIdenticalUpToClock ==
    [][ReadsStatus
       => /\ UNCHANGED <<pool, lock>>
          /\ \A i \in DOMAIN status_report'.tokens :
                status_report'.tokens[i].is_rate_limited
                    <=> status_report'.tokens[i].rate_limited_until > now
          /\ PoolAsReported => SansFlags(status_report') = SansFlags(status_report)]_vars

\* two reports of the same pool that differ: a penalty lapsed between them
C24_Witness ==
    /\ nstatus = 2
    /\ reported = <<current_index, token_statuses, cached_token, cache_queue>>
    /\ \E i \in DOMAIN status_report.tokens :
          /\ ~status_report.tokens[i].is_rate_limited
          /\ status_report.tokens[i].rate_limited_until = now
          /\ status_report.tokens[i].consecutive_failures > 0
    /\ budget.ticks < MaxTicks

\* ----------------------------------------------------------------- C25 ---
\* the steps of request r whose code reads or writes current_index, an entry
\* of token_statuses or the cached token: the cache test and its return
\* (token.py:150-160), get_next_available_token (46-81),
\* mark_token_rate_limited (125-131), the handler's test of the statuses
\* (198), cache_copilot_token (137-143), and the read of the current
\* credential in make_api_request (server.py:140)
AccessesPool(r) ==
    /\ pc[r] \in {"get_cached", "cache_hit", "refresh", "refresh_429",
                  "refresh_except", "refresh_except_check", "cache",
                  "rate_limited", "mark"}
    /\ pc'[r] # pc[r]

\* C25: every step that reads or writes current_index, token_statuses or the
\* cached token is taken with the pool's lock held by the request taking it
\* (held before the step or acquired by it).
C25_PoolAccessUnderLock ==
    [][\A r \in Requests : AccessesPool(r) => (lock = r \/ lock' = r)]_vars

\* ----------------------------------------------------------------- C26 ---
\* a token-exchange call or an upstream forwarding call of r is in flight
NetworkPending(r) == pc[r] \in {"exchange", "upstream"}

\* C26: a request whose network call is in flight does not hold the pool's
\* lock; whenever no coroutine is running the lock is free.
C26_NoLockAcrossNetworkCalls ==
    /\ \A r \in Requests : NetworkPending(r) => lock # r
    /\ running = Idle => lock = Free

\* one request awaits its exchange call while another, holding the lock,
\* penalizes a credential
C26_Witness ==
    \E r, q \in Requests :
        /\ pc[r] = "exchange"
        /\ pc[q] \in {"refresh_429_marked", "refresh_except_marked", "marked"}
        /\ lock = q

\* ----------------------------------------------------------------- C27 ---
\* C27: a get_cached_copilot_token call that observes a missing or expiring
\* cache goes on to refresh_token whatever the other requests are doing; it
\* writes the token its own exchange minted to the cache, replacing whatever
\* another call cached meanwhile, and returns that token; the cached token
\* changes in no other way than by such a write or a manual rotation.
C27_NoSingleFlight ==
    [][/\ \A r \in Requests :
            /\ (pc[r] = "cache_miss" /\ pc'[r] # pc[r]) => pc'[r] = "refresh"
            /\ (pc[r] = "selected" /\ pc'[r] # pc[r])
               => pc'[r] = "exchange" /\ nexch'[r] = nexch[r] + 1
            /\ (pc[r] = "cache" /\ pc'[r] # pc[r])
               => /\ new_token[r].by = r
                  /\ cached_token' = new_token[r]
                  /\ cache_queue' = <<new_token[r]>>
            /\ (pc[r] = "cache_stored" /\ pc'[r] # pc[r])
               => /\ token'[r] = new_token[r]
                  /\ pc'[r] = "send"
       /\ cached_token' # cached_token
          => \/ \E r \in Requests : pc[r] = "cache" /\ pc'[r] = "cache_stored"
             \/ Cycles]_vars

\* both requests found the cache missing, each minted a long-lived token and
\* holds the one it minted, and the cache holds the token written last
C27_Witness ==
    /\ cycle_report = NoReport
    /\ \A r \in Requests :
          /\ hist[r] = <<>>
          /\ nexch[r] = 1
          /\ pc[r] \in {"send", "upstream"}
          /\ token[r].by = r
          /\ token[r].expires_at > now + 300
    /\ cached_token = token[1]
    /\ cached_token # token[2]

\* ----------------------------------------------------------------- C28 ---
\* C28: for every credential, rate_limited_until = 0 exactly when
\* consecutive_failures = 0, and consecutive_failures is never negative.
C28_WindowZeroIffNoFailures ==
    \A t \in DOMAIN token_statuses :
        /\ token_statuses[t].rate_limited_until = 0
              <=> token_statuses[t].consecutive_failures = 0
        /\ token_statuses[t].consecutive_failures >= 0

\* one credential was penalized and healed (both fields back at 0), another
\* is penalized
C28_Witness ==
    \E t, u \in DOMAIN token_statuses :
        /\ token_statuses[t].last_error = "Rate limit exceeded"
        /\ token_statuses[t].rate_limited_until = 0
        /\ token_statuses[t].consecutive_failures = 0
        /\ token_statuses[u].rate_limited_until > now
        /\ token_statuses[u].consecutive_failures > 0

\* ----------------------------------------------------------------- C29 ---
\* C29: get_next_available_token leaves current_index at the index it
\* returns when it returns a usable credential, and at its value on entry
\* when no credential is usable (whatever index it returns then); the status
\* of every credential other than the returned one is unchanged, and so are
\* the credential list and the cached token.
C29_IndexFollowsUsableSelection ==
    [][\A r \in Requests :
          Selects(r)
          => /\ Usable # {} => current_index' = Returned(r).token_index
             /\ Usable = {} => current_index' = current_index
             /\ \A t \in DOMAIN token_statuses :
                   t # Returned(r).refresh_token
                   => token_statuses'[t] = token_statuses[t]
             /\ UNCHANGED <<tokens, cached_token, cache_queue>>]_vars

\* no credential is usable and the soonest-to-recover one, which was
\* returned, is not the one current_index designates
C29_Witness ==
    \E r \in Requests :
        /\ pc[r] = "selected"
        /\ \A t \in DOMAIN token_statuses : token_statuses[t].rate_limited_until > now
        /\ Top(r).token_index # current_index

\* ----------------------------------------------------------------- C30 ---
\* number of failed exchange calls the refresh_token call under way made with
\* credential t
FailedExchanges(r, t) ==
    Cardinality({ i \in DOMAIN exchanges[r] :
                    exchanges[r][i].token = t /\ exchanges[r][i].status # 200 })

\* every failed exchange call of r has been handled: r is about to select
\* again, or refresh_token has returned or raised to its caller
FailuresHandled(r) == pc[r] \in {"refresh", "cache", "api_except"}

\* C30: during the refresh_token call of the first attempt of the only
\* request, on a pool without penalties, a credential's consecutive_failures
\* never exceeds the number of failed exchange calls made with it, and equals
\* it once every failure has been handled.
C30_OnePenaltyPerFailedExchange ==
    \A r \in Requests :
        (FirstRefresh(r) /\ pc[r] \in InRefresh \cup {"cache", "api_except"})
        => \A t \in DOMAIN token_statuses :
              /\ token_statuses[t].consecutive_failures <= FailedExchanges(r, t)
              /\ FailuresHandled(r)
                 => token_statuses[t].consecutive_failures = FailedExchanges(r, t)

\* ----------------------------------------------------------------- C31 ---
\* C31: a token found in the cache was minted with a credential selected
\* after the last manual rotation: no rotation has completed between the
\* selection of its credential and now.
C31_CacheHoldsPostRotationToken ==
    cached_token # None => cached_token.cycles_left = budget.cycles

\* ----------------------------------------------------------------- C32 ---
\* the places where request r is about to acquire the pool's lock: the with
\* blocks of get_cached_copilot_token, get_next_available_token,
\* mark_token_rate_limited and cache_copilot_token
AboutToLock(r) ==
    /\ running = r
    /\ pc[r] \in {"get_cached", "refresh", "refresh_429", "refresh_except",
                  "cache", "mark"}

\* C32: a request about to acquire the pool's lock finds it free (it is held
\* neither by the request itself nor by another), the step that acquires it
\* can be taken, in cache_copilot_token including the put on the queue, and
\* the queue never holds more than QUEUE_MAXSIZE = 1 item.
C32_LockAndQueueNeverBlock ==
    /\ Len(cache_queue) <= 1
    /\ \A r \in Requests :
          AboutToLock(r)
          => /\ lock = Free
             /\ ENABLED RequestStep(r)

\* a request has stored its token, under the lock, in the queue that held
\* the token another request had cached before
C32_Witness ==
    \E r, q \in Requests :
        /\ r # q
        /\ pc[r] = "cache_stored"
        /\ lock = r
        /\ cache_queue = <<new_token[r]>>
        /\ pc[q] \in {"send", "upstream"}
        /\ token[q].by = q

====
